---- MODULE Spec2Model ----
(***************************************************************************)
(* A model of simple_slab::Slab<T> (src/src/lib.rs): a dense buffer over   *)
(* one malloc'ed region, grown by doubling, with swap-with-last removal,   *)
(* unchecked indexing, a borrowing iterator and a destructor.              *)
(*                                                                         *)
(* An element is a record [id, val]: val is the value the caller passed,   *)
(* id tells apart two elements that carry equal values (the k-th inserted  *)
(* element has id k), so that moves, copies left behind and finalizations  *)
(* of one element can be followed.  Offsets are 0-based as in the source;  *)
(* the region is a TLA+ sequence, so offset i is mem[i + 1].               *)
(***************************************************************************)
EXTENDS Integers, Sequences, FiniteSets, Bags, TLC

VARIABLES
    capacity,        \* Slab.capacity
    num_elems,       \* Slab.num_elems
    mem_ptr,         \* Slab.mem_ptr: Null or the address of the owned region
    alloc_bytes,     \* bytes last requested from malloc / realloc for the region
    mem,             \* the region's slots, in offset order
    status,          \* "live", "dropped" (Drop::drop ran) or "aborted" (fault)
    iter_live,       \* a SlabIter borrows the slab
    current_offset,  \* SlabIter.current_offset
    yielded,         \* what the live iterator has returned so far
    op,              \* the last call: name, offset (the argument of remove and
                     \* index, the iterator's offset when next was called),
                     \* element passed, outcome, kind of result and result
    pre,             \* the slab as it was when the last call started
    inserted,        \* every element an insert has placed, in call order
    removed,         \* every element a remove has handed back, in call order
    finalized,       \* every element the container has run drop_in_place on
    free_count,      \* how many times the region went to libc::free
    free_at,         \* how many finalizations preceded the free (-1: none yet)
    built,           \* the capacity the slab was constructed with
    high_water,      \* the largest length the slab has had
    example,         \* k >= 0: the slab was filled by inserts alone and then
                     \* remove(0), .., remove(k - 1) were called in that order,
                     \* as the removal loop of the usage example does; -1: not so
    vec,             \* a Vec<T> given push / swap_remove for each insert / remove
    vec_ret,         \* what the last push or swap_remove on vec came to
    phase            \* "fill": only inserts so far; "drain": then only in-bounds
                     \* removes; "mixed": anything else

vars == <<capacity, num_elems, mem_ptr, alloc_bytes, mem, status, iter_live,
          current_offset, yielded, op, pre, inserted, removed, finalized,
          free_count, free_at, built, high_water, example, vec, vec_ret,
          phase>>

slab == <<capacity, num_elems, mem_ptr, alloc_bytes, mem>>
ghost == <<inserted, removed, finalized, free_count, free_at, built,
           high_water, example, vec>>
iterator == <<iter_live, current_offset, yielded>>

----------------------------------------------------------------------------
(* Bounds of the exploration *)

\* the largest capacity handed to with_capacity
MaxInitCap == 2
\* the number of insert calls that place an element in one run
MaxInserts == 3
\* the largest offset handed to remove and to index
MaxOffset == 3

\* the values callers insert, in the order callers first use them
Values == <<10, 20, 30>>
ValueSet == {Values[i] : i \in 1..Len(Values)}

\* The slab never inspects a T, so runs that differ by a renaming of the values
\* are the same run: the next insert carries a value already used or the first
\* unused one.
Used(elems) == {elems[i].val : i \in 1..Len(elems)}
NextValues(elems) ==
    {Values[i] : i \in {j \in 1..Len(Values) : j <= Cardinality(Used(elems)) + 1}}

----------------------------------------------------------------------------
(* Machine quantities *)

\* usize: the narrowest width Rust targets have, which TLC's integers hold
UsizeBits == 16
UsizeModulus == 2 ^ UsizeBits

\* mem::size_of::<T>() for the u64 elements the remove benchmark stores
SizeOfT == 8

\* ptr::null_mut()
Null == 0
\* the addresses malloc and realloc hand out
Addrs == {1, 2}

Max(a, b) == IF a >= b THEN a ELSE b

\* usize multiplication as a release build performs it
WrappingMul(a, b) == (a * b) % UsizeModulus

\* a slot that was never written
Uninit == [id |-> 0, val |-> 0]
Elem(i, v) == [id |-> i, val |-> v]

\* what a read of memory that holds no value can produce: bytes that are no
\* value a caller stored, or bytes that happen to equal one
Garbage == {Elem(0, g) : g \in {0, Values[1]}}

UninitBlock(n) == [i \in 1..n |-> Uninit]


----------------------------------------------------------------------------
(* The slab as a value: what the methods read and what they leave behind *)

Self ==
    [capacity |-> capacity, num_elems |-> num_elems, mem_ptr |-> mem_ptr,
     alloc_bytes |-> alloc_bytes, mem |-> mem]

Snapshot ==
    [capacity |-> capacity, num_elems |-> num_elems, mem |-> mem]

\* *mem_ptr.offset(off) read and written through a raw pointer; the region
\* holds Len(m) slots
Load(m, off) == IF off + 1 \in DOMAIN m THEN m[off + 1] ELSE Uninit
Store(m, off, e) == IF off + 1 \in DOMAIN m THEN [m EXCEPT ![off + 1] = e] ELSE m

\* what is read at the offsets [0, n) of region m
Occupied(m, n) == [i \in 1..n |-> Load(m, i - 1)]

Call(name, offset, elem, outcome, ret_kind, ret) ==
    [name |-> name, offset |-> offset, elem |-> elem, outcome |-> outcome,
     ret_kind |-> ret_kind, ret |-> ret]

\* libc::malloc: NULL or a fresh address (for a request of 0 bytes too)
MallocResults == {Null} \cup Addrs
\* libc::realloc: NULL (the old region stays as it was) or the address of a
\* region of the new size that starts with the old region's bytes
ReallocResults == {Null} \cup Addrs

\* a growth that takes a fresh region and copies nothing into it
ReallocFresh(m, n) == UninitBlock(n)

\* the bytes of region m after a realloc to n slots that succeeded
Realloc(m, n) == [i \in 1..n |-> IF i <= Len(m) THEN m[i] ELSE Uninit]

\* Slab::new
New ==
    [capacity |-> 0, num_elems |-> 0, mem_ptr |-> Null, alloc_bytes |-> 0,
     mem |-> << >>]

\* Slab::with_capacity, when it returns (it panics on NULL for capacity # 0)
WithCapacity(cap, maybe_ptr) ==
    LET bytes == WrappingMul(SizeOfT, cap) IN
    [capacity |-> cap, num_elems |-> 0, mem_ptr |-> maybe_ptr,
     alloc_bytes |-> bytes,
     mem |-> IF maybe_ptr = Null THEN << >> ELSE UninitBlock(bytes \div SizeOfT)]

\* a reallocate that doubles without the minimum of 1
NewCapacityNoMinimum(cap) == WrappingMul(cap, 2)

\* the capacity Slab::reallocate asks for
NewCapacity(cap) == IF cap # 0 THEN WrappingMul(cap, 2) ELSE 1

\* a reallocate that takes the new region but forgets to record its capacity
ReallocateKeepsCapacity(self, maybe_ptr) ==
    LET new_capacity == NewCapacity(self.capacity)
        bytes == WrappingMul(SizeOfT, new_capacity) IN
    [self EXCEPT !.mem_ptr = maybe_ptr,
                 !.alloc_bytes = bytes,
                 !.mem = Realloc(self.mem, bytes \div SizeOfT)]

\* Slab::reallocate, when realloc returned maybe_ptr # NULL
Reallocate(self, maybe_ptr) ==
    LET new_capacity == NewCapacity(self.capacity)
        bytes == WrappingMul(SizeOfT, new_capacity) IN
    [self EXCEPT !.capacity = new_capacity,
                 !.mem_ptr = maybe_ptr,
                 !.alloc_bytes = bytes,
                 !.mem = Realloc(self.mem, bytes \div SizeOfT)]

\* an insert that counts the element before computing where it goes
PlaceAfterCounting(self, elem) ==
    LET next_elem_offset == self.num_elems + 1 IN
    [self EXCEPT !.mem = Store(self.mem, next_elem_offset, elem),
                 !.num_elems = self.num_elems + 1]

\* an insert that writes the element and forgets num_elems += 1
PlaceUncounted(self, elem) ==
    [self EXCEPT !.mem = Store(self.mem, self.num_elems, elem)]

\* Slab::insert past the capacity check: ptr::write at num_elems, num_elems += 1
Place(self, elem) ==
    LET next_elem_offset == self.num_elems IN
    [self EXCEPT !.mem = Store(self.mem, next_elem_offset, elem),
                 !.num_elems = self.num_elems + 1]

\* a bounds check against the capacity instead of the length
OutOfBoundsOfCapacity(self, offset) == offset >= self.capacity

\* Slab::remove: the bounds check
OutOfBounds(self, offset) == offset >= self.num_elems

\* a remove that hands back what it read from the last slot
TakenFromLast(self, offset) == Load(self.mem, self.num_elems - 1)

\* Slab::remove past the bounds check: the element mem::replace hands back
Taken(self, offset) == Load(self.mem, offset)

\* a remove that only shortens the slab, without moving the last element
DisplaceNothing(self, offset) ==
    [self EXCEPT !.num_elems = self.num_elems - 1]

\* a remove that closes the gap by shifting the elements after it down by one
DisplaceShifting(self, offset) ==
    [self EXCEPT !.mem = [i \in DOMAIN self.mem |->
                             IF offset < i /\ i < self.num_elems
                             THEN self.mem[i + 1] ELSE self.mem[i]],
                 !.num_elems = self.num_elems - 1]

\* a remove that also gives back the capacity it no longer needs
DisplaceAndShrink(self, offset) ==
    LET last_elem_offset == self.num_elems - 1 IN
    [self EXCEPT !.mem = Store(self.mem, offset, Load(self.mem, last_elem_offset)),
                 !.num_elems = self.num_elems - 1,
                 !.capacity = self.num_elems - 1]

\* Slab::remove past the bounds check: ptr::read of the last element goes to
\* offset (its bytes stay where they were), num_elems -= 1
Displace(self, offset) ==
    LET last_elem_offset == self.num_elems - 1 IN
    [self EXCEPT !.mem = Store(self.mem, offset, Load(self.mem, last_elem_offset)),
                 !.num_elems = self.num_elems - 1]

\* Index::index: what dereferencing mem_ptr.offset(index) can yield inside the
\* region (a slot never written holds arbitrary bytes)
Deref(self, index) ==
    IF Load(self.mem, index) = Uninit THEN Garbage ELSE {Load(self.mem, index)}

\* an iterator that runs one slot past the length
HasNextInclusive(self, offset) == offset <= self.num_elems

\* SlabIter::next: the loop condition
HasNext(self, offset) == offset < self.num_elems

\* a destructor that walks the whole region
DroppedToCapacity(self) == self.mem

\* Drop::drop: the elements drop_in_place runs on, offsets 0..len()
Dropped(self) == Occupied(self.mem, self.num_elems)

\* a reallocate that records the new capacity before it looks at the pointer
ReallocateFailedAfterRecording(self) ==
    [self EXCEPT !.capacity = NewCapacity(self.capacity)]

\* Slab::reallocate, when realloc returned NULL: it panics before it assigns
\* anything, and realloc left the old region as it was
ReallocateFailed(self) == self

\* whether ptr::write at next_elem_offset lands in the region
InRegion(self, off) == off < Len(self.mem)

\* Vec::push and Vec::swap_remove, which the benchmarks run side by side with
\* insert and remove
Push(v, e) == Append(v, e)
SwapRemoveOutOfBounds(v, index) == index >= Len(v)
SwapRemoved(v, index) == v[index + 1]
SwapRemove(v, index) ==
    [i \in 1..(Len(v) - 1) |-> IF i = index + 1 THEN v[Len(v)] ELSE v[i]]

\* no call on vec was part of the last step
Idle == [outcome |-> "idle", ret |-> Uninit]
VecRet(outcome, ret) == [outcome |-> outcome, ret |-> ret]

SetSlab(self) ==
    /\ capacity' = self.capacity
    /\ num_elems' = self.num_elems
    /\ mem_ptr' = self.mem_ptr
    /\ alloc_bytes' = self.alloc_bytes
    /\ mem' = self.mem

----------------------------------------------------------------------------
(* Construction *)

Constructed ==
    {New} \cup
    {WithCapacity(cap, p) : cap \in 0..MaxInitCap, p \in Addrs} \cup
    {WithCapacity(0, p) : p \in MallocResults}

\* the least capacity whose size in bytes does not fit a usize
WrapCapacity == UsizeModulus \div SizeOfT

\* with_capacity also called with capacities whose size in bytes wraps
ConstructedWide ==
    Constructed \cup
    {WithCapacity(WrapCapacity + k, p) : k \in 0..MaxInitCap, p \in Addrs}

\* the constructors that return self
Constructors(self) ==
    {"with_capacity"} \cup (IF self = New THEN {"new"} ELSE {})

\* the state in which constructor `name` hands out the slab `self`
Start(self, name) ==
    /\ capacity = self.capacity
    /\ num_elems = self.num_elems
    /\ mem_ptr = self.mem_ptr
    /\ alloc_bytes = self.alloc_bytes
    /\ mem = self.mem
    /\ pre = [capacity |-> self.capacity, num_elems |-> 0,
              mem |-> self.mem]
    /\ built = self.capacity
    /\ op = Call(name, self.capacity, Uninit, "ok", "slab", Uninit)
    /\ status = "live"
    /\ iter_live = FALSE
    /\ current_offset = 0
    /\ yielded = << >>
    /\ inserted = << >>
    /\ removed = << >>
    /\ finalized = << >>
    /\ free_count = 0
    /\ free_at = -1
    /\ high_water = 0
    /\ example = 0
    /\ vec = << >>
    /\ vec_ret = Idle
    /\ phase = "fill"

Init == \E self \in Constructed : \E name \in Constructors(self) : Start(self, name)

InitWide ==
    \E self \in ConstructedWide : \E name \in Constructors(self) : Start(self, name)

----------------------------------------------------------------------------
(* Operations *)

\* Slab::insert; &mut self, so no iterator is live.  A write outside the region
\* (the capacity says there is room, the region is shorter) is undefined: it
\* faults, or lands in memory that is not the slab's.
Insert ==
    \E v \in NextValues(inserted), maybe_ptr \in ReallocResults,
       written \in {"ok", "fault"} :
        LET elem == Elem(Len(inserted) + 1, v)
            grows == num_elems = capacity
            fails == grows /\ maybe_ptr = Null
            grown == IF grows THEN Reallocate(Self, maybe_ptr) ELSE Self
        IN
        /\ status = "live"
        /\ ~iter_live
        /\ Len(inserted) < MaxInserts
        /\ grows \/ maybe_ptr = mem_ptr
        /\ written = "fault" => ~fails /\ ~InRegion(grown, grown.num_elems)
        /\ pre' = Snapshot
        /\ IF fails
           THEN \* panic!("Unable to allocate new capacity")
                /\ SetSlab(ReallocateFailed(Self))
                /\ op' = Call("insert", 0, elem, "panic", "none", Uninit)
                /\ vec_ret' = VecRet("panic", Uninit)
                /\ UNCHANGED <<status, inserted, high_water, vec>>
                /\ example' = -1
                /\ phase' = "mixed"
           ELSE IF written = "fault"
           THEN /\ op' = Call("insert", 0, elem, "fault", "none", Uninit)
                /\ status' = "aborted"
                /\ vec_ret' = Idle
                /\ UNCHANGED <<slab, inserted, high_water, vec>>
                /\ example' = -1
                /\ phase' = "mixed"
           ELSE /\ SetSlab(Place(grown, elem))
                /\ op' = Call("insert", 0, elem, "ok", "unit", Uninit)
                /\ inserted' = Append(inserted, elem)
                /\ high_water' = Max(high_water, num_elems')
                /\ vec' = Push(vec, elem)
                /\ vec_ret' = VecRet("ok", Uninit)
                /\ status' = status
                /\ example' = IF example = 0 THEN 0 ELSE -1
                /\ phase' = IF phase = "fill" THEN "fill" ELSE "mixed"
        /\ UNCHANGED <<iterator, removed, finalized, free_count, free_at, built>>

\* Slab::remove; &mut self, so no iterator is live
Remove ==
    \E offset \in 0..MaxOffset :
        /\ status = "live"
        /\ ~iter_live
        /\ pre' = Snapshot
        /\ IF OutOfBounds(Self, offset)
           THEN \* panic!("Offset {} out of bounds for slab.len: {}")
                /\ op' = Call("remove", offset, Uninit, "panic", "none", Uninit)
                /\ phase' = "mixed"
                /\ UNCHANGED <<slab, removed>>
           ELSE /\ SetSlab(Displace(Self, offset))
                /\ op' = Call("remove", offset, Uninit, "ok", "value", Taken(Self, offset))
                /\ removed' = Append(removed, Taken(Self, offset))
                /\ phase' = IF phase \in {"fill", "drain"} THEN "drain" ELSE "mixed"
        /\ IF SwapRemoveOutOfBounds(vec, offset)
           THEN /\ vec_ret' = VecRet("panic", Uninit)
                /\ vec' = vec
           ELSE /\ vec_ret' = VecRet("ok", SwapRemoved(vec, offset))
                /\ vec' = SwapRemove(vec, offset)
        /\ example' = IF example >= 0 /\ offset = example THEN example + 1 ELSE -1
        /\ UNCHANGED <<status, iterator, inserted, finalized, free_count, free_at,
                       built, high_water>>

\* Index::index: no comparison with num_elems or capacity is made.  Inside the
\* region the slot's bytes come back, whatever they are; outside it the
\* dereference is undefined: it faults or yields arbitrary bytes.  (Explored
\* between iterations; alongside an iterator it reads the same slab.)
Index ==
    \E index \in 0..MaxOffset :
        /\ status = "live"
        /\ ~iter_live
        /\ pre' = Snapshot
        /\ IF index < Len(mem)
           THEN /\ \E e \in Deref(Self, index) :
                      op' = Call("index", index, Uninit, "ok", "ref", e)
                /\ status' = status
           ELSE \/ /\ \E e \in Garbage :
                         op' = Call("index", index, Uninit, "ok", "ref", e)
                   /\ status' = status
                \/ /\ op' = Call("index", index, Uninit, "fault", "none", Uninit)
                   /\ status' = "aborted"
        /\ vec_ret' = Idle
        /\ UNCHANGED <<slab, iterator, ghost, phase>>

\* Slab::iter (and IntoIterator for &Slab): a fresh iterator at offset 0
Iter ==
    /\ status = "live"
    /\ pre' = Snapshot
    /\ op' = Call("iter", 0, Uninit, "ok", "iter", Uninit)
    /\ iter_live' = TRUE
    /\ current_offset' = 0
    /\ yielded' = << >>
    /\ vec_ret' = Idle
    /\ UNCHANGED <<slab, status, ghost, phase>>

\* SlabIter::next
IterNext ==
    /\ status = "live"
    /\ iter_live
    /\ pre' = Snapshot
    /\ IF HasNext(Self, current_offset)
       THEN LET offset == current_offset IN
            /\ current_offset' = current_offset + 1
            /\ op' = Call("next", offset, Uninit, "ok", "some", Load(mem, offset))
            /\ yielded' = Append(yielded, Load(mem, offset))
       ELSE /\ op' = Call("next", current_offset, Uninit, "ok", "none", Uninit)
            /\ UNCHANGED <<current_offset, yielded>>
    /\ vec_ret' = Idle
    /\ UNCHANGED <<slab, status, iter_live, ghost, phase>>

\* the iterator goes out of scope and its borrow of the slab ends
IterEnd ==
    /\ status = "live"
    /\ iter_live
    /\ pre' = Snapshot
    /\ op' = Call("iter_end", 0, Uninit, "ok", "unit", Uninit)
    /\ iter_live' = FALSE
    /\ current_offset' = 0
    /\ yielded' = << >>
    /\ vec_ret' = Idle
    /\ UNCHANGED <<slab, status, ghost, phase>>

\* Drop::drop: drop_in_place on offsets 0..len(), then libc::free
Drop ==
    /\ status = "live"
    /\ ~iter_live
    /\ pre' = Snapshot
    /\ op' = Call("drop", 0, Uninit, "ok", "unit", Uninit)
    /\ finalized' = finalized \o Dropped(Self)
    /\ free_at' = Len(finalized')
    /\ free_count' = free_count + 1
    /\ status' = "dropped"
    /\ vec_ret' = Idle
    /\ UNCHANGED <<slab, iterator, inserted, removed, built, high_water, example,
                   vec, phase>>

Next ==
    \/ Insert
    \/ Remove
    \/ Index
    \/ Iter
    \/ IterNext
    \/ IterEnd
    \/ Drop

Spec == Init /\ [][Next]_vars

\* the same operations on slabs built with any capacity, wrapping ones included
SpecWide == InitWide /\ [][Next]_vars

----------------------------------------------------------------------------
(* Vocabulary of the properties *)

\* the last call was `name` and it returned (it did not panic or fault)
Returned(name) == op.name = name /\ op.outcome = "ok"

\* how many times element e occurs in the sequence elems
Count(elems, e) == Cardinality({i \in 1..Len(elems) : elems[i] = e})

Range(elems) == {elems[i] : i \in 1..Len(elems)}

----------------------------------------------------------------------------
(* Properties *)

\* C1: after construction and after every insert and remove call, rejected
\* out-of-bounds removes included, 0 <= length <= capacity.
C1_LengthWithinCapacity ==
    /\ 0 <= num_elems
    /\ num_elems <= capacity

\* a remove was rejected on a slab that has grown, is full and has seen a remove
C1_Witness ==
    /\ op.name = "remove"
    /\ op.outcome = "panic"
    /\ num_elems = capacity
    /\ capacity > built
    /\ Len(removed) > 0

\* C2: remove(p) with p < length returns the value that was at p, decreases
\* length by exactly 1 and, when p was not the last occupied position, leaves the
\* value that was last at p; when p was the last occupied position the slab just
\* loses that element.
C2_RemoveSwapsLast ==
    (op.name = "remove" /\ op.offset < pre.num_elems) =>
        /\ op.outcome = "ok"
        /\ op.ret_kind = "value"
        /\ op.ret = Load(pre.mem, op.offset)
        /\ num_elems = pre.num_elems - 1
        /\ IF op.offset # pre.num_elems - 1
           THEN /\ op.offset < num_elems
                /\ Deref(Self, op.offset) = {Load(pre.mem, pre.num_elems - 1)}
           ELSE Occupied(mem, num_elems) = Occupied(pre.mem, pre.num_elems - 1)

\* the first of three elements was removed, so the third moved to offset 0
C2_Witness ==
    /\ Returned("remove")
    /\ op.offset = 0
    /\ pre.num_elems = 3
    /\ num_elems = 2

\* C3: an insert into a slab of length n puts the value at offset n and makes
\* the length n + 1, so reading position n right afterwards yields it; while no
\* remove has taken anything out, the k-th inserted value (from 0) is read back at
\* index k.
C3_InsertAtLength ==
    /\ Returned("insert") =>
          /\ num_elems = pre.num_elems + 1
          /\ Deref(Self, pre.num_elems) = {op.elem}
    /\ removed = << >> =>
          \A k \in 0..(Len(inserted) - 1) :
              /\ k < num_elems
              /\ Deref(Self, k) = {inserted[k + 1]}

\* the third insert in a row, into a full slab of capacity 2, so that it grew
C3_Witness ==
    /\ Returned("insert")
    /\ removed = << >>
    /\ pre.num_elems = 2
    /\ pre.capacity = 2
    /\ num_elems = 3

C5_RejectedRemove ==
    (op.name = "remove" /\ op.offset >= pre.num_elems) =>
        /\ op.outcome = "panic"
        /\ num_elems = pre.num_elems
        /\ capacity = pre.capacity
        /\ mem = pre.mem
        /\ Occupied(mem, num_elems) = Occupied(pre.mem, pre.num_elems)

\* a remove at offset == length was rejected though the offset lies inside the
\* capacity, in a slot that still holds the bytes of an element removed earlier
C5_Witness ==
    /\ op.name = "remove"
    /\ op.outcome = "panic"
    /\ op.offset = num_elems
    /\ num_elems >= 1
    /\ op.offset < capacity
    /\ Load(mem, op.offset) # Uninit

\* C6 as stated: reading through the public accessor at a position >= length is
\* rejected with an out-of-bounds error, so no call reads a slot at or past length.
C6_IndexRejectsOutOfBounds ==
    (op.name = "index" /\ op.offset >= pre.num_elems) =>
        op.outcome = "out_of_bounds"

\* C7: the container finalizes nothing before teardown; at teardown it finalizes
\* exactly the slots [0, length), so that every inserted element is either handed
\* back by a remove or finalized, exactly once in all, and the copy a remove left
\* in the vacated slot is not finalized; the region is released once, after the
\* finalizations.
C7_FinalizedOnce ==
    /\ status # "dropped" =>
          /\ finalized = << >>
          /\ free_count = 0
    /\ status = "dropped" =>
          /\ \A i \in 1..Len(inserted) :
                Count(finalized, inserted[i]) + Count(removed, inserted[i]) = 1
          /\ Range(finalized) \subseteq Range(inserted)
          /\ finalized = Occupied(mem, num_elems)
          /\ free_count = 1
          /\ free_at = Len(finalized)

\* a teardown of a slab that still held elements, after a remove that left a
\* stale copy in the slot just past the length
C7_Witness ==
    /\ status = "dropped"
    /\ Len(removed) >= 1
    /\ Len(finalized) >= 1
    /\ num_elems < Len(mem)
    /\ Load(mem, num_elems) \in Range(inserted)

\* C8 (state part): an iterator starts at offset 0, has yielded the slots below
\* its offset in order, yields the slot at its offset while that is below the
\* length, and reports exhaustion exactly when it has yielded all length slots.
C8_IterInv ==
    /\ iter_live =>
          /\ current_offset <= num_elems
          /\ yielded = Occupied(mem, current_offset)
    /\ op.name = "iter" =>
          /\ iter_live
          /\ current_offset = 0
          /\ yielded = << >>
    /\ op.name = "next" =>
          IF op.offset < num_elems
          THEN /\ op.ret_kind = "some"
               /\ op.ret = Load(mem, op.offset)
               /\ current_offset = op.offset + 1
          ELSE /\ op.ret_kind = "none"
               /\ current_offset = num_elems
               /\ Len(yielded) = num_elems
               /\ yielded = Occupied(mem, num_elems)

\* C8 (step part): a next that follows a next which reported exhaustion reports
\* exhaustion too.
C8_StaysExhausted ==
    (op.name = "next" /\ op.ret_kind = "none" /\ op'.name = "next") =>
        op'.ret_kind = "none"

\* C8: after any inserts and in-bounds removes a fresh iterator yields exactly the
\* values at offsets 0 .. length-1, in that order, each once, then reports
\* exhaustion and keeps reporting it; every iter() starts at offset 0.
C8_IterationComplete == [](C8_IterInv) /\ [][C8_StaysExhausted]_vars

\* an iterator ran to exhaustion over two elements of a slab a remove reordered
C8_Witness ==
    /\ op.name = "next"
    /\ op.ret_kind = "none"
    /\ num_elems = 2
    /\ Len(inserted) = 3
    /\ yielded = <<inserted[3], inserted[2]>>

\* C9: a remove at a position valid at that moment never fails; and after N
\* distinct values were inserted into the new slab and then N such removes were
\* made, the length is 0 and the removes returned the N values, each once.
C9_RoundTrip ==
    /\ (op.name = "remove" /\ op.offset < pre.num_elems) => op.outcome = "ok"
    /\ (phase = "drain" /\ Cardinality(Used(inserted)) = Len(inserted)) =>
          /\ Len(removed) + num_elems = Len(inserted)
          /\ num_elems = 0 =>
                /\ Len(removed) = Len(inserted)
                /\ \A i \in 1..Len(inserted) : Count(removed, inserted[i]) = 1
                /\ Used(removed) = Used(inserted)

\* three distinct values went in and came out in another order
C9_Witness ==
    /\ phase = "drain"
    /\ num_elems = 0
    /\ Len(inserted) = 3
    /\ Cardinality(Used(inserted)) = 3
    /\ removed = <<inserted[2], inserted[3], inserted[1]>>

\* C10: an insert that returns changed the capacity iff length == capacity held
\* before it, and then to max(1, 2 * old capacity); a slab built with capacity 1
\* has capacities 1, 2, 4 after its first three inserts, and one built with
\* capacity 0 has capacity 1 after its first.
C10_GrowthPolicy ==
    /\ Returned("insert") =>
          /\ capacity # pre.capacity <=> pre.num_elems = pre.capacity
          /\ pre.num_elems = pre.capacity => capacity = Max(1, 2 * pre.capacity)
    /\ (phase = "fill" /\ built = 1 /\ Len(inserted) \in 1..3) =>
          capacity = <<1, 2, 4>>[Len(inserted)]
    /\ (phase = "fill" /\ built = 0 /\ Len(inserted) = 1) =>
          /\ capacity = 1
          /\ num_elems = 1

\* the third insert into a slab built with capacity 1
C10_Witness ==
    /\ Returned("insert")
    /\ phase = "fill"
    /\ built = 1
    /\ Len(inserted) = 3
    /\ pre.capacity = 2
    /\ capacity = 4

\* C11 as stated: with_capacity(n) returns a slab of length 0 and capacity n for
\* every n, n == 0 included; new() returns length 0 and capacity 0; the capacity
\* of the slab returned never exceeds the storage obtained for it.
C11_ConstructedAsAsked ==
    op.name \in {"new", "with_capacity"} =>
        /\ num_elems = 0
        /\ capacity = op.offset
        /\ op.name = "new" => capacity = 0 /\ mem_ptr = Null
        /\ capacity * SizeOfT <= alloc_bytes
        /\ capacity <= Len(mem)

\* C12 (step part): no step lowers the capacity; a remove, and a call that was
\* rejected, leave it equal.
C12_CapacityStep ==
    /\ capacity' >= capacity
    /\ (op'.name = "remove" \/ op'.outcome # "ok") => capacity' = capacity

\* C12: the capacity never decreases, and so it is always at least the largest
\* length the slab has had.
C12_CapacityNeverShrinks ==
    [][C12_CapacityStep]_vars /\ [](capacity >= high_water)

\* a slab that held three elements, was emptied, and then rejected a remove
C12_Witness ==
    /\ high_water = 3
    /\ num_elems = 0
    /\ capacity >= 3
    /\ op.name = "remove"
    /\ op.outcome = "panic"

\* the values of a sequence of elements
Vals(elems) == [i \in 1..Len(elems) |-> elems[i].val]

\* the last call was a next that reported exhaustion
IterDone == op.name = "next" /\ op.ret_kind = "none"

\* C13: from a new slab, inserting 10, 20, 30 puts them at positions 0, 1, 2
\* with length 3; remove(0) then returns 10, position 0 holds 30, the length is 2
\* and iteration yields 30, 20; remove(1) then returns 20, the length is 1 and
\* iteration yields 30.
C13_Scenario ==
    (Vals(inserted) = <<10, 20, 30>> /\ example \in 0..2) =>
        /\ example = 0 =>
              /\ num_elems = 3
              /\ Vals(Occupied(mem, num_elems)) = <<10, 20, 30>>
        /\ example = 1 =>
              /\ op.name = "remove" =>
                    op.offset = 0 /\ op.outcome = "ok" /\ op.ret.val = 10
              /\ num_elems = 2
              /\ Load(mem, 0).val = 30
              /\ IterDone => Vals(yielded) = <<30, 20>>
        /\ example = 2 =>
              /\ op.name = "remove" =>
                    op.offset = 1 /\ op.outcome = "ok" /\ op.ret.val = 20
              /\ num_elems = 1
              /\ IterDone => Vals(yielded) = <<30>>

\* the scenario ran to its end: the last iteration reported exhaustion
C13_Witness ==
    /\ Vals(inserted) = <<10, 20, 30>>
    /\ example = 2
    /\ IterDone
    /\ Vals(removed) = <<10, 20>>
    /\ Vals(yielded) = <<30>>

\* C14 as stated: on a slab filled with N >= 1 elements, remove(offset) for
\* offset = 0, 1, .., N - 1 in ascending order, N = len() taken once before the
\* loop, completes every call without an out-of-bounds panic.
C14_ExampleLoopCompletes ==
    (/\ example >= 1
     /\ op.name = "remove"
     /\ op.offset = example - 1
     /\ op.offset < Len(inserted)) => op.outcome = "ok"

\* C15: an insert that returns leaves every position below the old length with
\* the value it had, whether or not it reallocated, and makes the length one more.
C15_InsertKeepsOthers ==
    Returned("insert") =>
        /\ \A i \in 0..(pre.num_elems - 1) :
              /\ Load(mem, i) = Load(pre.mem, i)
              /\ Deref(Self, i) = {Load(pre.mem, i)}
        /\ num_elems = pre.num_elems + 1
        /\ capacity >= pre.capacity

\* an insert that doubled the capacity of a full slab of two elements
C15_Witness ==
    /\ Returned("insert")
    /\ pre.num_elems = 2
    /\ capacity = 2 * pre.capacity
    /\ Load(mem, 0) = inserted[1]
    /\ Load(mem, 1) = inserted[2]

\* C16: remove(p) with p < length leaves every position i # p below length - 1
\* (length taken before the call) with the value it had, and the capacity as it was.
C16_RemoveKeepsOthers ==
    Returned("remove") =>
        /\ capacity = pre.capacity
        /\ \A i \in 0..(pre.num_elems - 2) :
              i # op.offset => Load(mem, i) = Load(pre.mem, i)

\* the first of three elements was removed: position 1 is one that must stay
C16_Witness ==
    /\ Returned("remove")
    /\ pre.num_elems = 3
    /\ op.offset = 0
    /\ Load(mem, 1) = Load(pre.mem, 1)
    /\ Load(mem, 1) # Uninit

\* C17: when the allocation a growth needs fails, the insert is rejected and the
\* slab is as it was: capacity, length and region unchanged, the value not in it.
C17_FailedGrowthLeavesSlab ==
    (op.name = "insert" /\ op.outcome = "panic") =>
        /\ pre.num_elems = pre.capacity
        /\ capacity = pre.capacity
        /\ num_elems = pre.num_elems
        /\ mem = pre.mem
        /\ op.elem \notin Range(Occupied(mem, num_elems))
        /\ op.elem \notin Range(inserted)

\* a full slab of two elements could not grow
C17_Witness ==
    /\ op.name = "insert"
    /\ op.outcome = "panic"
    /\ num_elems = 2
    /\ capacity = 2

\* C18 as stated: the bytes requested for the region always equal
\* capacity * size_of(T) as a true product (no multiplication wraps), so the
\* capacity never exceeds the number of slots the region backs.
C18_BytesAreTrueProduct ==
    /\ alloc_bytes = capacity * SizeOfT
    /\ capacity <= Len(mem)

\* C19: after every step the slab and a Vec given push for each insert and
\* swap_remove for each remove have the same length and the same values at every
\* position below it; each remove returned what swap_remove returned; and the
\* two rejected the same calls.
C19_RefinesVec ==
    /\ Len(vec) = num_elems
    /\ vec = Occupied(mem, num_elems)
    /\ op.name \in {"insert", "remove"} =>
          /\ vec_ret.outcome = op.outcome
          /\ op.name = "remove" => vec_ret.ret = op.ret

\* a remove that moved the last of three elements to the front, on both sides
C19_Witness ==
    /\ Returned("remove")
    /\ vec_ret.outcome = "ok"
    /\ Len(inserted) = 3
    /\ vec = <<inserted[3], inserted[2]>>
    /\ vec_ret.ret = inserted[1]

====
